---- MODULE Spec2Model ----
(***************************************************************************)
(* A model of the JVMTI agent src/thread_start_catch.cpp: the Holder       *)
(* resource guard, the symbol resolvers, printStackTrace, and the two      *)
(* event callbacks ClassLoad and OnFieldModification, which the host runs  *)
(* on its own threads.  Strings are sequences of character codes; a host   *)
(* buffer is a positive handle, 0 is the null pointer / null ID.           *)
(***************************************************************************)
EXTENDS Integers, Sequences, FiniteSets, TLC

\* ---------------------------------------------------------------- bounds
\* Events the host delivers in one run.
MaxEvents == 3
\* Deepest managed stack a thread has when its trace is requested.
MaxDepth == 3
\* Guard objects and raw buffers of the Holder specification.
MaxGuards == 3
MaxRaw == 2

\* ------------------------------------------------------ program constants
MAX_FRAMES == 10
START_DEPTH == 2

\* The host threads that deliver callbacks, concurrently.  A modification
\* event is delivered on the thread that writes the field, so a callback's
\* jthread parameter is the thread it runs on.
Threads == {1, 2}

\* "HighResTimer" as the C literal: its bytes and the terminating NUL.
THREAD_TO_CATCH == <<72, 105, 103, 104, 82, 101, 115, 84, 105, 109, 101, 114, 0>>
\* The signature ClassLoad compares with.
ThreadSignature == "Ljava/lang/Thread;"

\* ------------------------------------------------------------ host world
\* Classes the host may load: 1 and 2 both carry the Thread signature (the
\* same class seen again is klass 1 twice, a second class of that signature
\* is klass 2), 3 is some other class.
Classes == {1, 2, 3}
SignatureOf(klass) == IF klass \in {1, 2} THEN ThreadSignature ELSE "Ljava/lang/Object;"
\* jfieldID of the "name" field of a class, jmethodID of its "start" method.
NameFieldOf(klass) == klass
StartMethodOf(klass) == 10 + klass
\* A field of an unrelated class on which somebody else holds a watch.
OtherField == 3
Fields == {1, 2, OtherField}

\* Java strings (sequences of UTF-16 code units below 256) the host may
\* assign to a field: the target, the target in lower case, a proper
\* prefix, an extension, the target followed by U+0000 and 'x', and another
\* name.
NameTarget == <<72, 105, 103, 104, 82, 101, 115, 84, 105, 109, 101, 114>>
NameLower == <<104, 105, 103, 104, 114, 101, 115, 116, 105, 109, 101, 114>>
NamePrefix == <<72, 105, 103, 104, 82, 101, 115>>
NameExtended == NameTarget \o <<50>>
NameEmbeddedNul == NameTarget \o <<0, 120>>
NameOther == <<79, 116, 104, 101, 114, 84, 104, 114, 101, 97, 100>>
JavaNames == {NameTarget, NameLower, NamePrefix, NameExtended, NameEmbeddedNul, NameOther}

\* What dereferencing a null or indeterminate pointer may do.
UBOutcomes == {"crash", "continue"}

Min(a, b) == IF a < b THEN a ELSE b

\* ------------------------------------------------------------- strings
\* One code unit in modified UTF-8: U+0000 and everything above U+007F
\* takes two bytes, so the encoding never contains a 0 byte.
EncodeUnit(c) == IF c = 0 \/ c > 127 THEN <<192 + (c \div 64), 128 + (c % 64)>> ELSE <<c>>

RECURSIVE EncodeUnits(_)
EncodeUnits(js) == IF js = <<>> THEN <<>> ELSE EncodeUnit(Head(js)) \o EncodeUnits(Tail(js))

\* JNI GetStringUTFChars: the modified UTF-8 bytes and a terminating NUL.
GetStringUTFChars(js) == EncodeUnits(js) \o <<0>>

\* strcmp on NUL-terminated byte sequences: the sign of the first difference.
RECURSIVE strcmpFrom(_, _, _)
strcmpFrom(a, b, i) ==
    IF a[i] # b[i] THEN (IF a[i] < b[i] THEN -1 ELSE 1)
    ELSE IF a[i] = 0 THEN 0
    ELSE strcmpFrom(a, b, i + 1)

\* A comparison that ignores letter case, as strcasecmp would.
ToLower(c) == IF c >= 65 /\ c <= 90 THEN c + 32 ELSE c
strcasecmp(a, b) ==
    strcmpFrom([i \in DOMAIN a |-> ToLower(a[i])], [i \in DOMAIN b |-> ToLower(b[i])], 1)

strcmp(a, b) == strcmpFrom(a, b, 1)

\* ---------------------------------------------------------------- Holder
\* Holder<T>::valid
valid(ptr) == ptr # 0

\* The host allocator's books: dl maps every buffer it has handed out to the
\* number of Deallocate calls made on it.  Allocate hands out the lowest
\* handle not on the books.
NoBuffers == [h \in {} |-> 0]
FreshHandle(dl) == CHOOSE h \in 1 .. Cardinality(DOMAIN dl) + 1 :
                      /\ h \notin DOMAIN dl
                      /\ \A k \in 1 .. h - 1 : k \in DOMAIN dl
Allocate(dl) == [h \in DOMAIN dl \cup {FreshHandle(dl)} |->
                    IF h \in DOMAIN dl THEN dl[h] ELSE 0]
\* The books are kept per caller: when a callback returns (or a loop
\* iteration ends) the entries of its buffers are closed, and the allocator
\* may hand the same handles out again.
Settle(dl, handles) == [h \in DOMAIN dl \ handles |-> dl[h]]

\* Holder<T>::deallocate: jvmti->Deallocate when valid().
deallocate(ptr, dl) == IF valid(ptr) THEN [dl EXCEPT ![ptr] = @ + 1] ELSE dl

\* explicit Holder(T *ptr)
HolderFromRaw(raw) == raw

\* Holder(Holder &&other): the new object starts from its default member
\* initializer (nullptr), so deallocate() finds nothing; then the swap.
HolderMoveConstruct(other, dl) ==
    [self |-> other, other |-> 0, dl |-> deallocate(0, dl)]

\* Holder &operator=(Holder &&other) = default: the member-wise move of a
\* raw pointer is a copy; the old value of self is dropped, other keeps its
\* pointer.
HolderMoveAssign(self, other, dl) ==
    [self |-> other, other |-> other, dl |-> dl]

\* ~Holder()
HolderDestroy(ptr, dl) == deallocate(ptr, dl)


\* ------------------------------------------------------ symbol resolvers
\* A log is a sequence of <<what, argument>>: the host calls a callback
\* made and the lines it wrote to std::cerr, in program order.
Entry(what, arg) == <<what, arg>>

\* getClassSignature: ok is the host's answer to GetClassSignature; the
\* host allocates the buffer it returns.
getClassSignature(ok, dl) ==
    IF ok
    THEN [ptr |-> HolderFromRaw(FreshHandle(dl)), dl |-> Allocate(dl),
          log |-> <<Entry("GetClassSignature", 1)>>]
    ELSE [ptr |-> HolderFromRaw(0), dl |-> dl,
          log |-> <<Entry("GetClassSignature", 0),
                    Entry("cerr: failed to take class signature", 0)>>]

\* getMethodName: the same for GetMethodName (it logs the same text).
getMethodName(ok, dl) ==
    IF ok
    THEN [ptr |-> HolderFromRaw(FreshHandle(dl)), dl |-> Allocate(dl),
          log |-> <<Entry("GetMethodName", 1)>>]
    ELSE [ptr |-> HolderFromRaw(0), dl |-> dl,
          log |-> <<Entry("GetMethodName", 0),
                    Entry("cerr: failed to take class signature", 0)>>]

\* ------------------------------------------------------------ agent load
\* The host calls Agent_OnLoad makes, in program order.
LoadCalls == <<"GetEnv", "AddCapabilities", "SetEventCallbacks",
               "SetEventNotificationMode VM_START",
               "SetEventNotificationMode CLASS_LOAD",
               "SetEventNotificationMode FIELD_MODIFICATION">>
LoadCallSet == {LoadCalls[i] : i \in DOMAIN LoadCalls}

\* Before the host has called Agent_OnLoad.
NotLoaded == [result |-> "none", log |-> <<>>, callbacks |-> {}, enabled |-> {}]
\* Agent_OnLoad has been entered.
LoadEntered == [NotLoaded EXCEPT !.result = "running"]

\* What a call leaves in the host when it succeeds: SetEventCallbacks
\* registers the two callbacks of lines 212-213, SetEventNotificationMode
\* enables its event.
LoadEffect(st, call) ==
    IF call = "SetEventCallbacks"
    THEN [st EXCEPT !.callbacks = {"ClassLoad", "FieldModification"}]
    ELSE IF call = "SetEventNotificationMode VM_START"
    THEN [st EXCEPT !.enabled = @ \cup {"VM_START"}]
    ELSE IF call = "SetEventNotificationMode CLASS_LOAD"
    THEN [st EXCEPT !.enabled = @ \cup {"CLASS_LOAD"}]
    ELSE IF call = "SetEventNotificationMode FIELD_MODIFICATION"
    THEN [st EXCEPT !.enabled = @ \cup {"FIELD_MODIFICATION"}]
    ELSE st

\* A step whose failure is logged but not returned on.
LoadStep_noReturn(st, call, ok) ==
    IF st.result # "running" THEN st
    ELSE IF ok
    THEN [LoadEffect(st, call) EXCEPT !.log = @ \o <<Entry(call, 1)>>]
    ELSE [st EXCEPT !.log = @ \o <<Entry(call, 0), Entry("cerr: failed", 0)>>]

\* One `if (call != JNI_OK) { std::cerr << ...; return JNI_ERR; }` of
\* Agent_OnLoad; a step after a return is not executed.  The line written
\* names the call that failed, which the log entry before it records.
LoadStep(st, call, ok) ==
    IF st.result # "running" THEN st
    ELSE IF ok
    THEN [LoadEffect(st, call) EXCEPT !.log = @ \o <<Entry(call, 1)>>]
    ELSE [st EXCEPT !.log = @ \o <<Entry(call, 0), Entry("cerr: failed", 0)>>,
                    !.result = "JNI_ERR"]

\* Agent_OnLoad, lines 186-237; answer tells which host calls succeed.
Agent_OnLoad(answer) ==
    LET s1 == LoadStep(LoadEntered, "GetEnv", answer["GetEnv"])
        s2 == LoadStep(s1, "AddCapabilities", answer["AddCapabilities"])
        s3 == LoadStep(s2, "SetEventCallbacks", answer["SetEventCallbacks"])
        s4 == LoadStep(s3, "SetEventNotificationMode VM_START",
                       answer["SetEventNotificationMode VM_START"])
        s5 == LoadStep(s4, "SetEventNotificationMode CLASS_LOAD",
                       answer["SetEventNotificationMode CLASS_LOAD"])
        s6 == LoadStep(s5, "SetEventNotificationMode FIELD_MODIFICATION",
                       answer["SetEventNotificationMode FIELD_MODIFICATION"])
    IN  IF s6.result = "running"
        THEN [s6 EXCEPT !.log = @ \o <<Entry("cerr: Agent loaded successfully", 0)>>,
                        !.result = "JNI_OK"]
        ELSE s6

\* ----------------------------------------------------------------- state
VARIABLES
    thread_start,       \* static jmethodID thread_start
    thread_name_field,  \* static jfieldID thread_name_field
    watched,            \* host: fields this agent's watch requests succeeded on
    watchRequests,      \* number of SetFieldModificationWatch calls made
    dealloc,            \* host: per buffer of a caller in progress, the Deallocate calls on it
    crashed,            \* the process has been taken down
    nevents,            \* events delivered so far
    matched,            \* events on the armed field that carried the target name
    captures,           \* calls of printStackTrace
    pc,                 \* per host thread: where its callback stands
    ev,                 \* per host thread: the parameters of its callback
    name,               \* per host thread: ClassLoad's local guard `name`
    out,                \* per host thread: the log of its callback, the loop apart
    iter,               \* the log of the loop iteration the last step ran, if it ran one
    nlines,             \* per host thread: frame lines written whole so far
    bufs,               \* per host thread: buffers the host allocated for it
    frames,             \* per host thread: printStackTrace's frames[0..count)
    idx,                \* per host thread: printStackTrace's loop counter i
    gstate,             \* guards of the Holder specification: unborn/alive/dead
    gptr,               \* their ptr_
    handed,             \* raw buffers handed to a guard's constructor
    load                \* Agent_OnLoad: its result, its log, what it left in the host

loopVars == <<nlines, frames, idx>>
tally == <<matched, captures>>
progVars == <<thread_start, thread_name_field, watched, watchRequests, crashed,
              nevents, matched, captures, pc, ev, name, out, iter, bufs, loopVars,
              load>>
holderVars == <<gstate, gptr, handed>>
vars == <<progVars, holderVars, dealloc>>

NoEvent == [klass |-> 0, thread |-> 0, field |-> 0, new_value |-> <<>>,
            tnf |-> 0, armed |-> FALSE]

NoIteration == [thread |-> 0, log |-> <<>>, released |-> NoBuffers]

Guards == 1 .. MaxGuards

\* The statics as lines 132-133 initialise them, no callback running, no
\* buffer handed out.
InitCallbacks ==
    /\ thread_start = 0
    /\ thread_name_field = 0
    /\ watched = {}
    /\ watchRequests = 0
    /\ dealloc = NoBuffers
    /\ crashed = FALSE
    /\ nevents = 0
    /\ matched = 0
    /\ captures = 0
    /\ pc = [t \in Threads |-> "idle"]
    /\ ev = [t \in Threads |-> NoEvent]
    /\ name = [t \in Threads |-> 0]
    /\ out = [t \in Threads |-> <<>>]
    /\ iter = NoIteration
    /\ nlines = [t \in Threads |-> 0]
    /\ bufs = [t \in Threads |-> {}]
    /\ frames = [t \in Threads |-> <<>>]
    /\ idx = [t \in Threads |-> 0]
    /\ gstate = [g \in Guards |-> "unborn"]
    /\ gptr = [g \in Guards |-> 0]
    /\ handed = {}

\* The state once Agent_OnLoad has returned JNI_OK: both statics are 0.
Init ==
    /\ InitCallbacks
    /\ load = Agent_OnLoad([c \in LoadCallSet |-> TRUE])

\* The host delivers an event on thread t only while the process lives,
\* the thread is not inside a callback, and the run's events are not used up.
CanDeliver(t) == ~crashed /\ pc[t] = "idle" /\ nevents < MaxEvents

\* Arming has completed: the field identity is stored and its watch is on.
ArmingCompleted == thread_name_field # 0 /\ thread_name_field \in watched

\* ------------------------------------------------------------- ClassLoad
\* A comparison that takes any resolved signature for the one looked for.
SignatureMatchesAny(s) == s # ""

\* Line 146: s == "Ljava/lang/Thread;".
SignatureMatches(s) == s = ThreadSignature

\* Lines 144-146: the signature is resolved, std::string s is built from
\* name.get() with no check of the guard, and s is compared.  Building a
\* std::string from a null pointer is undefined: the process dies, or the
\* read yields an empty string.
ClassLoad_getClassSignature(t) ==
    /\ CanDeliver(t)
    /\ iter' = NoIteration
    /\ \E klass \in Classes, ok \in BOOLEAN, ub \in UBOutcomes :
         LET r == getClassSignature(ok, dealloc)
             s == IF valid(r.ptr) THEN SignatureOf(klass) ELSE ""
             dies == ~valid(r.ptr) /\ ub = "crash"
             deref == IF valid(r.ptr) THEN <<>> ELSE <<Entry("read through null", 0)>>
         IN  /\ valid(r.ptr) => ub = "continue"
             /\ ev' = [ev EXCEPT ![t] = [NoEvent EXCEPT !.klass = klass, !.thread = t]]
             /\ name' = [name EXCEPT ![t] = r.ptr]
             /\ dealloc' = r.dl
             /\ bufs' = [bufs EXCEPT ![t] = IF valid(r.ptr) THEN {r.ptr} ELSE {}]
             /\ out' = [out EXCEPT ![t] = r.log \o deref]
             /\ crashed' = dies
             /\ pc' = [pc EXCEPT ![t] =
                          IF dies THEN "cl_string"
                          ELSE IF SignatureMatches(s) THEN "cl_lookup"
                          ELSE "cl_ret"]
    /\ nevents' = nevents + 1
    /\ UNCHANGED <<thread_start, thread_name_field, watched, watchRequests, tally,
                   loopVars, holderVars, load>>

\* Lines 148-150 with the watch requested on the looked-up field before
\* thread_name_field is assigned.
ClassLoad_lookup_watchFirst(t) ==
    /\ ~crashed /\ pc[t] = "cl_lookup"
    /\ iter' = NoIteration
    /\ thread_start' = StartMethodOf(ev[t].klass)
    /\ watched' = watched \cup {NameFieldOf(ev[t].klass)}
    /\ watchRequests' = watchRequests + 1
    /\ out' = [out EXCEPT ![t] =
                  @ \o <<Entry("GetMethodID", StartMethodOf(ev[t].klass)),
                         Entry("SetFieldModificationWatch", NameFieldOf(ev[t].klass))>>]
    /\ pc' = [pc EXCEPT ![t] = "cl_watch"]
    /\ UNCHANGED <<thread_name_field, tally, dealloc, crashed, nevents,
                   ev, name, bufs, loopVars, holderVars, load>>

\* Lines 148-149: GetMethodID and GetFieldID; both statics are assigned,
\* whatever they held.  (A class of the Thread signature has both members:
\* the lookups succeed.)
ClassLoad_lookup(t) ==
    /\ ~crashed /\ pc[t] = "cl_lookup"
    /\ iter' = NoIteration
    /\ thread_start' = StartMethodOf(ev[t].klass)
    /\ thread_name_field' = NameFieldOf(ev[t].klass)
    /\ out' = [out EXCEPT ![t] =
                  @ \o <<Entry("GetMethodID", StartMethodOf(ev[t].klass)),
                         Entry("GetFieldID", NameFieldOf(ev[t].klass))>>]
    /\ pc' = [pc EXCEPT ![t] = "cl_watch"]
    /\ UNCHANGED <<watched, watchRequests, tally, dealloc, crashed, nevents,
                   ev, name, bufs, loopVars, holderVars, load>>

\* The host's SetFieldModificationWatch: it refuses a null field
\* (JVMTI_ERROR_INVALID_FIELDID), a field already watched
\* (JVMTI_ERROR_DUPLICATE), and may fail for reasons of its own (hostOk).
SetFieldModificationWatchOK(field, hostOk) == field # 0 /\ field \notin watched /\ hostOk

\* Lines 150-153: the watch request, on the field just stored.
ClassLoad_SetFieldModificationWatch(t) ==
    /\ ~crashed /\ pc[t] = "cl_watch"
    /\ iter' = NoIteration
    /\ \E hostOk \in BOOLEAN :
         LET f == thread_name_field
             ok == SetFieldModificationWatchOK(f, hostOk)
         IN  /\ watched' = IF ok THEN watched \cup {f} ELSE watched
             /\ out' = [out EXCEPT ![t] =
                           @ \o <<Entry("SetFieldModificationWatch", f)>>
                             \o (IF ok THEN <<>>
                                 ELSE <<Entry("cerr: failed to attach field watcher", 0)>>)]
    /\ watchRequests' = watchRequests + 1
    /\ pc' = [pc EXCEPT ![t] = "cl_ret"]
    /\ UNCHANGED <<thread_start, thread_name_field, tally, dealloc, crashed, nevents,
                   ev, name, bufs, loopVars, holderVars, load>>

\* Line 155: the callback returns; `name` is destroyed.
ClassLoad_return(t) ==
    /\ ~crashed /\ pc[t] = "cl_ret"
    /\ iter' = NoIteration
    /\ dealloc' = Settle(HolderDestroy(name[t], dealloc), bufs[t])
    /\ pc' = [pc EXCEPT ![t] = "idle"]
    /\ ev' = [ev EXCEPT ![t] = NoEvent]
    /\ name' = [name EXCEPT ![t] = 0]
    /\ out' = [out EXCEPT ![t] = <<>>]
    /\ bufs' = [bufs EXCEPT ![t] = {}]
    /\ UNCHANGED <<thread_start, thread_name_field, watched, watchRequests, tally,
                   crashed, nevents, loopVars, holderVars, load>>

\* --------------------------------------------------- OnFieldModification
\* A callback without the filter of line 169.
FieldFilterAbsent(field, armedField) == TRUE

\* Line 169: the field-identity filter.
FieldFilterPasses(field, armedField) == field = armedField

\* The host emits a modification event for a field only while a watch is on
\* it: this agent's watch, once the request has returned successfully, or
\* somebody else's on an unrelated field.
HostEmits(field) == field = OtherField \/ field \in watched

\* Lines 169-172: the callback is entered; an event for any field but the
\* stored one returns at once.  ev keeps the value of thread_name_field the
\* comparison read, and whether arming had completed at that moment.
OnFieldModification_filter(t) ==
    /\ CanDeliver(t)
    /\ iter' = NoIteration
    /\ \E field \in Fields :
         /\ HostEmits(field)
         /\ ev' = [ev EXCEPT ![t] =
                      [NoEvent EXCEPT !.thread = t, !.field = field,
                                      !.tnf = thread_name_field,
                                      !.armed = ArmingCompleted]]
         /\ pc' = [pc EXCEPT ![t] =
                      IF FieldFilterPasses(field, thread_name_field)
                      THEN "fm_compare" ELSE "fm_ret"]
    /\ nevents' = nevents + 1
    /\ out' = [out EXCEPT ![t] = <<>>]
    /\ bufs' = [bufs EXCEPT ![t] = {}]
    /\ UNCHANGED <<thread_start, thread_name_field, watched, watchRequests, tally,
                   dealloc, crashed, name, loopVars, holderVars, load>>

\* The body with printStackTrace called on NULL (the current thread)
\* instead of the thread of the notification.
OnFieldModification_body_nullThread(new_value, thread) ==
    LET chars == GetStringUTFChars(new_value)
        decoded == <<Entry("GetStringUTFChars", 0), Entry("strcmp", 0)>>
    IN  IF strcmp(chars, THREAD_TO_CATCH) # 0
        THEN [capture |-> FALSE,
              log |-> decoded \o <<Entry("ReleaseStringUTFChars", 0)>>]
        ELSE [capture |-> TRUE,
              log |-> decoded \o <<Entry("cerr: Thread is about to get started", 0),
                                   Entry("ReleaseStringUTFChars", 0),
                                   Entry("printStackTrace", 0)>>]

\* The body without the release of line 176 on the mismatch path.
OnFieldModification_body_leak(new_value, thread) ==
    LET chars == GetStringUTFChars(new_value)
        decoded == <<Entry("GetStringUTFChars", 0), Entry("strcmp", 0)>>
    IN  IF strcmp(chars, THREAD_TO_CATCH) # 0
        THEN [capture |-> FALSE, log |-> decoded]
        ELSE [capture |-> TRUE,
              log |-> decoded \o <<Entry("cerr: Thread is about to get started", 0),
                                   Entry("ReleaseStringUTFChars", 0),
                                   Entry("printStackTrace", thread)>>]

\* Lines 173-181 as the log they produce: the string is decoded, compared,
\* released on either path, and on a match the notice (which prints the
\* decoded string) precedes the release and the call of printStackTrace.
OnFieldModification_body(new_value, thread) ==
    LET chars == GetStringUTFChars(new_value)
        decoded == <<Entry("GetStringUTFChars", 0), Entry("strcmp", 0)>>
    IN  IF strcmp(chars, THREAD_TO_CATCH) # 0
        THEN [capture |-> FALSE,
              log |-> decoded \o <<Entry("ReleaseStringUTFChars", 0)>>]
        ELSE [capture |-> TRUE,
              log |-> decoded \o <<Entry("cerr: Thread is about to get started", 0),
                                   Entry("ReleaseStringUTFChars", 0),
                                   Entry("printStackTrace", thread)>>]

\* Lines 173-181: the body runs on the event that passed the filter.
\* new_value.l is an opaque jstring; the host tells what it holds when it
\* is decoded.
OnFieldModification_compare(t) ==
    /\ ~crashed /\ pc[t] = "fm_compare"
    /\ iter' = NoIteration
    /\ \E new_value \in JavaNames :
         LET b == OnFieldModification_body(new_value, ev[t].thread)
         IN  /\ ev' = [ev EXCEPT ![t].new_value = new_value]
             /\ matched' = IF new_value = NameTarget THEN matched + 1 ELSE matched
             /\ captures' = IF b.capture THEN captures + 1 ELSE captures
             /\ out' = [out EXCEPT ![t] = @ \o b.log]
             /\ pc' = [pc EXCEPT ![t] = IF b.capture THEN "ps_info" ELSE "fm_ret"]
    /\ UNCHANGED <<thread_start, thread_name_field, watched, watchRequests,
                   dealloc, crashed, nevents, name, bufs, loopVars, holderVars, load>>

\* Line 182 (and the returns of lines 171, 177): the callback returns.
OnFieldModification_return(t) ==
    /\ ~crashed /\ pc[t] = "fm_ret"
    /\ iter' = NoIteration
    /\ dealloc' = Settle(dealloc, bufs[t])
    /\ pc' = [pc EXCEPT ![t] = "idle"]
    /\ ev' = [ev EXCEPT ![t] = NoEvent]
    /\ out' = [out EXCEPT ![t] = <<>>]
    /\ nlines' = [nlines EXCEPT ![t] = 0]
    /\ bufs' = [bufs EXCEPT ![t] = {}]
    /\ frames' = [frames EXCEPT ![t] = <<>>]
    /\ idx' = [idx EXCEPT ![t] = 0]
    /\ UNCHANGED <<thread_start, thread_name_field, watched, watchRequests, tally,
                   crashed, nevents, name, holderVars, load>>

\* ------------------------------------------------------- printStackTrace
\* Lines 101-105: GetThreadInfo on the thread printStackTrace was called
\* with (the last entry of the log); the header is written when it succeeds.
\* The host allocates info.name; the function never passes it to Deallocate.
printStackTrace_GetThreadInfo(t) ==
    /\ ~crashed /\ pc[t] = "ps_info"
    /\ iter' = NoIteration
    /\ \E ok \in BOOLEAN :
         IF ok
         THEN /\ dealloc' = Allocate(dealloc)
              /\ bufs' = [bufs EXCEPT ![t] = @ \cup {FreshHandle(dealloc)}]
              /\ out' = [out EXCEPT ![t] =
                            @ \o <<Entry("GetThreadInfo", 1),
                                   Entry("cerr: header", out[t][Len(out[t])][2])>>]
         ELSE /\ out' = [out EXCEPT ![t] = @ \o <<Entry("GetThreadInfo", 0)>>]
              /\ UNCHANGED <<dealloc, bufs>>
    /\ pc' = [pc EXCEPT ![t] = "ps_trace"]
    /\ UNCHANGED <<thread_start, thread_name_field, watched, watchRequests, tally,
                   crashed, nevents, ev, name, loopVars,
                   holderVars, load>>

\* The host's GetStackTrace on a stack of `depth` frames (1 is the top):
\* it fails when start_depth >= depth (JVMTI_ERROR_ILLEGAL_ARGUMENT) or for
\* reasons of its own, and else returns the frames below the skipped ones,
\* at most max_frame_count of them.
GetStackTrace(depth, start_depth, max_frame_count, hostOk) ==
    IF ~hostOk \/ start_depth >= depth
    THEN [ok |-> FALSE, frames |-> <<>>]
    ELSE [ok |-> TRUE,
          frames |-> [i \in 1 .. Min(depth - start_depth, max_frame_count) |-> start_depth + i]]

\* Lines 107-117 without the return of line 116: after a failed query the
\* loop runs on whatever frames[] and count hold.
printStackTrace_GetStackTrace_noReturn(t) ==
    /\ ~crashed /\ pc[t] = "ps_trace"
    /\ iter' = NoIteration
    /\ \E depth \in 0 .. MaxDepth, hostOk \in BOOLEAN :
         LET r == GetStackTrace(depth, START_DEPTH, MAX_FRAMES, hostOk)
             call == <<Entry("GetStackTrace start_depth", START_DEPTH),
                       Entry("GetStackTrace max_frame_count", MAX_FRAMES),
                       Entry("GetStackTrace", IF r.ok THEN 1 ELSE 0)>>
         IN  /\ out' = [out EXCEPT ![t] =
                           @ \o call \o (IF r.ok THEN <<>>
                                          ELSE <<Entry("cerr: GetStackTrace failed", 0)>>)]
             /\ frames' = [frames EXCEPT ![t] = IF r.ok THEN r.frames ELSE <<START_DEPTH + 1>>]
             /\ pc' = [pc EXCEPT ![t] = "ps_frame"]
    /\ UNCHANGED <<thread_start, thread_name_field, watched, watchRequests, tally,
                   dealloc, crashed, nevents, ev, name, bufs,
                   nlines, idx, holderVars, load>>

\* Lines 107-117: the frames are requested; on failure the function logs
\* and returns.
printStackTrace_GetStackTrace(t) ==
    /\ ~crashed /\ pc[t] = "ps_trace"
    /\ iter' = NoIteration
    /\ \E depth \in 0 .. MaxDepth, hostOk \in BOOLEAN :
         LET r == GetStackTrace(depth, START_DEPTH, MAX_FRAMES, hostOk)
             call == <<Entry("GetStackTrace start_depth", START_DEPTH),
                       Entry("GetStackTrace max_frame_count", MAX_FRAMES),
                       Entry("GetStackTrace", IF r.ok THEN 1 ELSE 0)>>
         IN  IF r.ok
             THEN /\ out' = [out EXCEPT ![t] = @ \o call]
                  /\ frames' = [frames EXCEPT ![t] = r.frames]
                  /\ pc' = [pc EXCEPT ![t] = "ps_frame"]
             ELSE /\ out' = [out EXCEPT ![t] =
                                @ \o call \o <<Entry("cerr: GetStackTrace failed", 0)>>]
                  /\ frames' = frames
                  /\ pc' = [pc EXCEPT ![t] = "fm_ret"]
    /\ UNCHANGED <<thread_start, thread_name_field, watched, watchRequests, tally,
                   dealloc, crashed, nevents, ev, name, bufs,
                   nlines, idx, holderVars, load>>

\* Lines 119-129, one iteration of the loop.  When GetMethodDeclaringClass
\* fails the warning is logged and the iteration goes on with cls never
\* assigned: passing it to GetClassSignature is undefined (the process dies,
\* or the host answers for whatever the slot held).  Writing a null
\* get() to std::cerr is undefined as well (the process dies, or the rest
\* of the line is lost).  The two guards are destroyed when the iteration
\* ends, methodName first.  iter keeps the iteration's log and, for each
\* buffer the host allocated in it, the Deallocate calls it received.
printStackTrace_frame(t) ==
    /\ ~crashed /\ pc[t] = "ps_frame" /\ idx[t] < Len(frames[t])
    /\ \E declOk \in BOOLEAN, sigOk \in BOOLEAN, nameOk \in BOOLEAN,
          ubCls \in UBOutcomes, ubNull \in UBOutcomes :
         LET method == frames[t][idx[t] + 1]
             decl == <<Entry("GetMethodDeclaringClass", method)>>
                     \o (IF declOk THEN <<>>
                         ELSE <<Entry("cerr: frame skip. Failed to get classID", method),
                                Entry("read indeterminate cls", method)>>)
             diesCls == ~declOk /\ ubCls = "crash"
             className == getClassSignature(sigOk, dealloc)
             methodName == getMethodName(nameOk, className.dl)
             complete == valid(className.ptr) /\ valid(methodName.ptr)
             diesNull == ~complete /\ ubNull = "crash"
             line == IF complete THEN <<Entry("cerr: frame line", method)>>
                     ELSE <<Entry("read through null", method)>>
             got == {h \in {className.ptr, methodName.ptr} : valid(h)}
             destroyed == HolderDestroy(className.ptr,
                              HolderDestroy(methodName.ptr, methodName.dl))
             last == idx[t] + 1 = Len(frames[t])
         IN  /\ declOk => ubCls = "continue"
             /\ complete => ubNull = "continue"
             /\ diesCls => sigOk /\ nameOk
             /\ IF diesCls
                THEN /\ iter' = [thread |-> t, log |-> decl, released |-> NoBuffers]
                     /\ UNCHANGED <<dealloc, nlines, idx, pc>>
                     /\ crashed' = TRUE
                ELSE IF diesNull
                THEN /\ iter' = [thread |-> t,
                               log |-> decl \o className.log \o methodName.log \o line,
                               released |-> [h \in got |-> methodName.dl[h]]]
                     /\ dealloc' = methodName.dl
                     /\ UNCHANGED <<nlines, idx, pc>>
                     /\ crashed' = TRUE
                ELSE /\ iter' = [thread |-> t,
                               log |-> decl \o className.log \o methodName.log \o line,
                               released |-> [h \in got |-> destroyed[h]]]
                     /\ dealloc' = Settle(destroyed, got)
                     /\ nlines' = [nlines EXCEPT ![t] = IF complete THEN @ + 1 ELSE @]
                     /\ idx' = [idx EXCEPT ![t] = @ + 1]
                     /\ pc' = [pc EXCEPT ![t] = IF last THEN "fm_ret" ELSE "ps_frame"]
                     /\ crashed' = FALSE
    /\ UNCHANGED <<thread_start, thread_name_field, watched, watchRequests, tally,
                   nevents, ev, name, out, bufs, frames,
                   holderVars, load>>

\* ------------------------------------------------------------ the agent
Next ==
    \E t \in Threads :
        \/ ClassLoad_getClassSignature(t)
        \/ ClassLoad_lookup(t)
        \/ ClassLoad_SetFieldModificationWatch(t)
        \/ ClassLoad_return(t)
        \/ OnFieldModification_filter(t)
        \/ OnFieldModification_compare(t)
        \/ OnFieldModification_return(t)
        \/ printStackTrace_GetThreadInfo(t)
        \/ printStackTrace_GetStackTrace(t)
        \/ printStackTrace_frame(t)

Spec == Init /\ [][Next]_vars

\* ------------------------------------------- the agent from its load on
\* Before the host has called Agent_OnLoad.
InitAgent ==
    /\ InitCallbacks
    /\ load = NotLoaded

\* The host calls Agent_OnLoad once, before it delivers any event; each of
\* the calls Agent_OnLoad makes may fail.
HostLoadsAgent ==
    /\ load.result = "none"
    /\ \E answer \in [LoadCallSet -> BOOLEAN] : load' = Agent_OnLoad(answer)
    /\ UNCHANGED <<thread_start, thread_name_field, watched, watchRequests, crashed,
                   nevents, tally, pc, ev, name, out, iter, bufs, loopVars,
                   holderVars, dealloc>>

\* Events are delivered once the load has returned JNI_OK (a load that
\* returns JNI_ERR ends the host).
NextAgent ==
    \/ HostLoadsAgent
    \/ (load.result = "JNI_OK" /\ Next)

SpecAgent == InitAgent /\ [][NextAgent]_vars

\* ------------------------------------------- Holder on its own (guards)
\* explicit Holder(T *ptr): a guard is constructed from a raw handle, null
\* or a buffer the host has just allocated.
GuardConstruct(g) ==
    /\ gstate[g] = "unborn"
    /\ \E fresh \in BOOLEAN :
         IF fresh
         THEN /\ Cardinality(DOMAIN dealloc) < MaxRaw
              /\ dealloc' = Allocate(dealloc)
              /\ gptr' = [gptr EXCEPT ![g] = HolderFromRaw(FreshHandle(dealloc))]
              /\ handed' = handed \cup {FreshHandle(dealloc)}
         ELSE /\ gptr' = [gptr EXCEPT ![g] = HolderFromRaw(0)]
              /\ UNCHANGED <<dealloc, handed>>
    /\ gstate' = [gstate EXCEPT ![g] = "alive"]
    /\ UNCHANGED progVars

\* Holder(Holder &&other): guard g is constructed from the live guard src.
GuardMoveConstruct(g, src) ==
    /\ gstate[g] = "unborn" /\ gstate[src] = "alive"
    /\ LET r == HolderMoveConstruct(gptr[src], dealloc)
       IN  /\ gptr' = [gptr EXCEPT ![g] = r.self, ![src] = r.other]
           /\ dealloc' = r.dl
    /\ gstate' = [gstate EXCEPT ![g] = "alive"]
    /\ UNCHANGED <<progVars, handed>>

\* operator=(Holder &&other): the live guard src is move-assigned to the
\* live guard g.
GuardMoveAssign(g, src) ==
    /\ g # src /\ gstate[g] = "alive" /\ gstate[src] = "alive"
    /\ LET r == HolderMoveAssign(gptr[g], gptr[src], dealloc)
       IN  /\ gptr' = [gptr EXCEPT ![g] = r.self, ![src] = r.other]
           /\ dealloc' = r.dl
    /\ UNCHANGED <<progVars, gstate, handed>>

\* ~Holder(): a live guard is destroyed.
GuardDestroy(g) ==
    /\ gstate[g] = "alive"
    /\ dealloc' = HolderDestroy(gptr[g], dealloc)
    /\ gstate' = [gstate EXCEPT ![g] = "dead"]
    /\ UNCHANGED <<progVars, gptr, handed>>

NextHolder ==
    \E g \in Guards :
        \/ GuardConstruct(g)
        \/ \E src \in Guards : GuardMoveConstruct(g, src)
        \/ \E src \in Guards : GuardMoveAssign(g, src)
        \/ GuardDestroy(g)

SpecHolder == Init /\ [][NextHolder]_vars


\* ================================================================ claims
Has(log, what) == \E i \in DOMAIN log : log[i][1] = what
HasEntry(log, e) == \E i \in DOMAIN log : log[i] = e
Count(log, what) == Cardinality({i \in DOMAIN log : log[i][1] = what})
Where(log, what) == CHOOSE i \in DOMAIN log : log[i][1] = what

Notice == "cerr: Thread is about to get started"
InClassLoad(t) == pc[t] \in {"cl_string", "cl_lookup", "cl_watch", "cl_ret"}
InCapture(t) == pc[t] \in {"ps_info", "ps_trace", "ps_frame"}
InFieldModification(t) == pc[t] \in {"fm_compare", "fm_ret"} \/ InCapture(t)
\* The body of OnFieldModification (lines 173-181) has run on thread t.
BodyRan(t) == InFieldModification(t) /\ pc[t] # "fm_compare" /\ ev[t].new_value # <<>>

\* C1: in a whole run SetFieldModificationWatch is requested at most once,
\* however many classes of the Thread signature are loaded.
C1_WatchRequestedAtMostOnce == watchRequests <= 1

\* C2: once thread_name_field holds a field identity no step changes it: it
\* is neither overwritten by a later matching class-load nor unset again.
C2_ArmedFieldWriteOnce ==
    [][thread_name_field # 0 => thread_name_field' = thread_name_field]_vars

\* C3: a field-modification event delivered before arming has completed, or
\* for a field other than the armed one, decodes no string and captures
\* nothing: its callback does nothing but return.
C3_FilteredEventCausesNothing ==
    \A t \in Threads :
        (InFieldModification(t) /\ (~ev[t].armed \/ ev[t].field # ev[t].tnf))
            => /\ pc[t] = "fm_ret"
               /\ out[t] = <<>>
               /\ ev[t].new_value = <<>>
               /\ iter.thread # t

\* One callback was delivered before arming had completed, another after it
\* for a field other than the armed one; both were filtered.
C3_Witness ==
    \E t \in Threads, u \in Threads :
        /\ pc[t] = "fm_ret" /\ ~ev[t].armed /\ ev[t].tnf = 0
        /\ pc[u] = "fm_ret" /\ ev[u].armed /\ ev[u].field # ev[u].tnf

\* C4: an event on the armed field whose new value is not exactly the
\* target name (another case, a proper prefix, an extension, ...) captures
\* nothing: no notice, no call of printStackTrace.
C4_NoCaptureUnlessExactName ==
    \A t \in Threads :
        (BodyRan(t) /\ ev[t].new_value # NameTarget)
            => /\ pc[t] = "fm_ret"
               /\ ~Has(out[t], Notice)
               /\ ~Has(out[t], "printStackTrace")

\* Two events on the armed field were compared and dropped: one carrying the
\* target in lower case, one carrying a name the target is a prefix of.
C4_Witness ==
    \E t \in Threads, u \in Threads :
        /\ BodyRan(t) /\ ev[t].field = ev[t].tnf /\ ev[t].new_value = NameLower
        /\ BodyRan(u) /\ ev[u].field = ev[u].tnf
        /\ ev[u].new_value \in {NameExtended, NameEmbeddedNul, NamePrefix}
        /\ pc[t] = "fm_ret" /\ pc[u] = "fm_ret"

\* C5: an event on the armed field that carries the target name causes
\* exactly one capture: one notice, then one call of printStackTrace, on the
\* thread of the notification; and captures are as many as such events.
C5_OneCapturePerMatch ==
    /\ captures = matched
    /\ \A t \in Threads :
           (BodyRan(t) /\ ev[t].new_value = NameTarget)
               => /\ Count(out[t], Notice) = 1
                  /\ Count(out[t], "printStackTrace") = 1
                  /\ Where(out[t], Notice) < Where(out[t], "printStackTrace")
                  /\ HasEntry(out[t], Entry("printStackTrace", ev[t].thread))

\* Two matching events have each caused their capture, on threads 1 and 2.
C5_Witness ==
    /\ captures = 2
    /\ \A t \in Threads : BodyRan(t) /\ ev[t].new_value = NameTarget /\ InCapture(t)

\* C6: whenever the body has run, the decoded string was obtained once,
\* released once, on the match path and on the mismatch path, and every
\* read of it (strcmp, the notice) lies between the two.
C6_StringReleasedOnce ==
    \A t \in Threads :
        BodyRan(t)
            => /\ Count(out[t], "GetStringUTFChars") = 1
               /\ Count(out[t], "ReleaseStringUTFChars") = 1
               /\ \A i \in DOMAIN out[t] :
                      out[t][i][1] \in {"strcmp", Notice}
                          => /\ Where(out[t], "GetStringUTFChars") < i
                             /\ i < Where(out[t], "ReleaseStringUTFChars")

\* The body has run on both paths: a mismatch on one thread, a match on the
\* other.
C6_Witness ==
    \E t \in Threads, u \in Threads :
        /\ BodyRan(t) /\ ev[t].new_value = NameOther
        /\ BodyRan(u) /\ ev[u].new_value = NameTarget

\* C7: once every guard has been destroyed, each buffer handed to a guard
\* has been passed to Deallocate exactly once.
C7_EveryBufferReleasedOnce ==
    (\A g \in Guards : gstate[g] # "alive") => \A h \in handed : dealloc[h] = 1

\* C8: no two live guards hold the same non-null buffer.
C8_SingleOwner ==
    \A g \in Guards, k \in Guards :
        (g # k /\ gstate[g] = "alive" /\ gstate[k] = "alive" /\ valid(gptr[g]))
            => gptr[g] # gptr[k]

\* C9: a class-load whose signature query failed is ignored: the empty guard
\* is not read through, nothing is looked up or watched, and the callback is
\* on its way to a normal return.
C9_FailedSignatureIgnored ==
    \A t \in Threads :
        (InClassLoad(t) /\ HasEntry(out[t], Entry("GetClassSignature", 0)))
            => /\ ~Has(out[t], "read through null")
               /\ pc[t] = "cl_ret"
               /\ ~Has(out[t], "GetFieldID")
               /\ ~Has(out[t], "SetFieldModificationWatch")

\* C10: when the stack-frames query has failed, the failure is logged once,
\* the capture is over (the callback is about to return), no frame line was
\* written and no per-frame query made, and the header was written exactly
\* when the thread-name query succeeded.
C10_StackQueryFailure ==
    \A t \in Threads :
        HasEntry(out[t], Entry("GetStackTrace", 0))
            => /\ pc[t] = "fm_ret"
               /\ Count(out[t], "cerr: GetStackTrace failed") = 1
               /\ out[t][Len(out[t])] = Entry("cerr: GetStackTrace failed", 0)
               /\ nlines[t] = 0 /\ idx[t] = 0 /\ frames[t] = <<>>
               /\ iter.thread # t
               /\ Count(out[t], "cerr: header") =
                      (IF HasEntry(out[t], Entry("GetThreadInfo", 1)) THEN 1 ELSE 0)

\* Two captures ended on a failed stack query: one had written its header,
\* the other's thread-name query had failed too.
C10_Witness ==
    \E t \in Threads, u \in Threads :
        /\ HasEntry(out[t], Entry("GetStackTrace", 0)) /\ Has(out[t], "cerr: header")
        /\ HasEntry(out[u], Entry("GetStackTrace", 0)) /\ ~Has(out[u], "cerr: header")
        /\ ~crashed

\* C11: once a watch request has been made and no request has succeeded
\* (the first one failed), the run stays inert: the field identity stays
\* stored, no step issues the watch request again, and no capture is made.
C11_FailedWatchNeverRetried ==
    [][(watchRequests >= 1 /\ watched = {})
          => /\ thread_name_field' # 0
             /\ watchRequests' = watchRequests
             /\ captures' = captures]_vars

\* C12: with callbacks running concurrently on the host threads, a
\* field-modification callback for a field of this agent's watch compares
\* with an identity that has been written, never with the unset value; the
\* identity is written before the watch is requested: a class-load that is
\* at its watch request, or past it, has stored the identity, and whenever a
\* watch is on the identity is set.
C12_IdentityWrittenBeforeWatch ==
    /\ watched # {} => thread_name_field # 0
    /\ \A t \in Threads :
           /\ (InFieldModification(t) /\ ev[t].field # OtherField) => ev[t].tnf # 0
           /\ pc[t] = "cl_watch" => (thread_name_field # 0 /\ Has(out[t], "GetFieldID"))
           /\ Has(out[t], "SetFieldModificationWatch")
                  => /\ Has(out[t], "GetFieldID")
                     /\ Where(out[t], "GetFieldID") < Where(out[t], "SetFieldModificationWatch")

\* A callback for the watched field has made its comparison while, on the
\* other thread, a class-load of the Thread signature is about to write the
\* identity again.
C12_Witness ==
    \E t \in Threads, u \in Threads :
        /\ InFieldModification(t) /\ ev[t].field # OtherField
        /\ ev[t].field = ev[t].tnf
        /\ pc[u] = "cl_lookup"

\* C13: when the declaring-class query has failed for a frame, the iteration
\* logs one warning and goes on to the next frame: the class handle that was
\* not obtained is neither read nor passed to the class-signature query, and
\* the process lives to handle the frames that follow.
C13_FailedDeclaringClassSkipsFrame ==
    (iter.thread # 0 /\ Has(iter.log, "cerr: frame skip. Failed to get classID"))
        => /\ Count(iter.log, "cerr: frame skip. Failed to get classID") = 1
           /\ ~Has(iter.log, "read indeterminate cls")
           /\ ~Has(iter.log, "GetClassSignature")
           /\ ~crashed

\* C14: when the class signature or the method name of a frame could not be
\* resolved, the frame is still rendered on one line (with a placeholder for
\* the missing part), the empty guard's null pointer is not read through,
\* and the capture goes on: the process lives.
C14_UnresolvedFrameRendered ==
    (iter.thread # 0 /\ (HasEntry(iter.log, Entry("GetClassSignature", 0))
                           \/ HasEntry(iter.log, Entry("GetMethodName", 0))))
        => /\ Count(iter.log, "cerr: frame line") = 1
           /\ ~Has(iter.log, "read through null")
           /\ ~crashed

\* C15: a capture asks the host for frames with skip depth 2 and maximum
\* count 10; when the query has succeeded with n frames, n <= 10, the first
\* of them is the third frame from the top, every iteration made so far has
\* rendered the line of the frame at its position, and when the capture is
\* over exactly n lines have been rendered.
C15_FramesRenderedInOrder ==
    \A t \in Threads :
        /\ Has(out[t], "GetStackTrace")
               => /\ HasEntry(out[t], Entry("GetStackTrace start_depth", 2))
                  /\ HasEntry(out[t], Entry("GetStackTrace max_frame_count", 10))
        /\ HasEntry(out[t], Entry("GetStackTrace", 1))
               => /\ Len(frames[t]) <= 10
                  /\ Len(frames[t]) > 0 => frames[t][1] = 3
                  /\ nlines[t] = idx[t]
                  /\ (iter.thread = t /\ idx[t] >= 1)
                         => HasEntry(iter.log, Entry("cerr: frame line", frames[t][idx[t]]))
                  /\ iter.thread = t => ~crashed
                  /\ pc[t] = "fm_ret" => nlines[t] = Len(frames[t])

\* C16: no step of a class-load whose resolved signature is not
\* "Ljava/lang/Thread;" (its delivery, its return) changes the stored field
\* identity, the stored start-method identity or the watches, or issues a
\* lookup or a watch request; and no step of a field-modification callback
\* changes the stored field identity.
C16_OtherEventsChangeNothing ==
    [][\A t \in Threads :
          LET other(e, o) == /\ SignatureOf(e.klass) # ThreadSignature
                             /\ HasEntry(o, Entry("GetClassSignature", 1))
              classStep == \/ pc[t] = "idle" /\ InClassLoad(t)' /\ other(ev'[t], out'[t])
                           \/ InClassLoad(t) /\ pc'[t] # pc[t] /\ other(ev[t], out[t])
              fieldStep == \/ pc[t] = "idle" /\ InFieldModification(t)'
                           \/ InFieldModification(t) /\ (pc'[t] # pc[t] \/ iter'.thread = t)
          IN  /\ classStep
                    => /\ thread_name_field' = thread_name_field
                       /\ thread_start' = thread_start
                       /\ watched' = watched
                       /\ watchRequests' = watchRequests
                       /\ pc'[t] \in {"cl_ret", "idle"}
                       /\ ~Has(out'[t], "GetMethodID")
                       /\ ~Has(out'[t], "GetFieldID")
                       /\ ~Has(out'[t], "SetFieldModificationWatch")
              /\ fieldStep => thread_name_field' = thread_name_field]_vars

\* A class of another signature has been loaded after the field identity
\* was stored and its watch set: the callback is at its return.
C16_Witness ==
    \E t \in Threads :
        /\ pc[t] = "cl_ret" /\ ev[t].klass = 3
        /\ out[t] = <<Entry("GetClassSignature", 1)>>
        /\ ArmingCompleted

IsPrefix(a, b) == Len(a) <= Len(b) /\ \A i \in DOMAIN a : a[i] = b[i]
IsLoadCall(e) == e[1] \in LoadCallSet
IsEnable(e) == e[1] \in {"SetEventNotificationMode VM_START",
                         "SetEventNotificationMode CLASS_LOAD",
                         "SetEventNotificationMode FIELD_MODIFICATION"}
\* The host calls a load log records, by name, in the order made.
CallsMade(log) == LET c == SelectSeq(log, IsLoadCall) IN [i \in DOMAIN c |-> c[i][1]]
\* What the load guarantees whatever its steps are: the callbacks are
\* registered before any event is enabled, the first failing call is the
\* last call and makes the result JNI_ERR, and JNI_OK is returned only with
\* no call failed, the callbacks registered and the events enabled.
LoadOrderly(l, events) ==
    /\ \A i \in DOMAIN l.log :
           IsEnable(l.log[i])
               => \E j \in 1 .. i - 1 : l.log[j] = Entry("SetEventCallbacks", 1)
    /\ \A i \in DOMAIN l.log :
           (IsLoadCall(l.log[i]) /\ l.log[i][2] = 0)
               => /\ l.result = "JNI_ERR"
                  /\ \A j \in DOMAIN l.log : j > i => ~IsLoadCall(l.log[j])
    /\ l.result = "JNI_ERR" => \E i \in DOMAIN l.log : IsLoadCall(l.log[i]) /\ l.log[i][2] = 0
    /\ l.result = "JNI_OK"
           => /\ events \subseteq l.enabled
              /\ l.callbacks = {"ClassLoad", "FieldModification"}
    /\ (\E t \in Threads : pc[t] # "idle") => l.result = "JNI_OK"

\* C17 as stated: the load makes its host calls in the order obtain the
\* interface, add capabilities, register the callbacks, enable class-load
\* events, enable field-modification events, and no other; the callbacks
\* are registered before an event is enabled, the first failing step ends
\* the load with failure, success is returned only with both events enabled.
C17_FiveStepsInOrder ==
    load.result # "none"
        => /\ IsPrefix(CallsMade(load.log),
                       <<"GetEnv", "AddCapabilities", "SetEventCallbacks",
                         "SetEventNotificationMode CLASS_LOAD",
                         "SetEventNotificationMode FIELD_MODIFICATION">>)
           /\ LoadOrderly(load, {"CLASS_LOAD", "FIELD_MODIFICATION"})

\* C17 amended: the same with the step the code has between registering the
\* callbacks and enabling class-load events: enabling VM-start events.
\* Success is returned only with all three events enabled.
C17_SixStepsInOrder ==
    load.result # "none"
        => /\ IsPrefix(CallsMade(load.log),
                       <<"GetEnv", "AddCapabilities", "SetEventCallbacks",
                         "SetEventNotificationMode VM_START",
                         "SetEventNotificationMode CLASS_LOAD",
                         "SetEventNotificationMode FIELD_MODIFICATION">>)
           /\ LoadOrderly(load, {"VM_START", "CLASS_LOAD", "FIELD_MODIFICATION"})

\* A load has failed at enabling class-load events, its fifth call.
C17_Witness ==
    /\ load.result = "JNI_ERR"
    /\ HasEntry(load.log, Entry("SetEventNotificationMode CLASS_LOAD", 0))

\* C18: when a capture is over and its callback about to return, every
\* buffer the host allocated for it (the thread name of the header, each
\* frame's class signature and method name) has been passed to Deallocate
\* exactly once: the frame buffers by the end of their iteration, the
\* thread name by the end of the capture, on the normal path and on the
\* stack-query-failure path.
C18_CaptureBuffersReleased ==
    /\ (iter.thread # 0 /\ ~crashed)
           => \A h \in DOMAIN iter.released : iter.released[h] = 1
    /\ \A t \in Threads :
           (pc[t] = "fm_ret" /\ Has(out[t], "printStackTrace"))
               => \A h \in bufs[t] : dealloc[h] = 1

====
